---- MODULE Spec2Model ----
(***************************************************************************)
(* Model of gufo.ping: the PingSocket dispatcher (src/gufo/ping/socket.py) *)
(* running on a single-threaded asyncio event loop, the native socket      *)
(* wrapper it drives (gufo.ping._fast.SocketWrapper), and the Ping client  *)
(* facade (src/gufo/ping/ping.py).                                         *)
(*                                                                         *)
(* Time is a discrete clock `now`.  The event loop runs every ready        *)
(* callback (readable socket, due timer, woken task) before the clock      *)
(* advances, so a delay of one tick or more is never scheduling jitter.    *)
(*                                                                         *)
(* SocketWrapper is native code outside the Python sources; it is modelled *)
(* from its documented contract: send allocates a fresh session id and     *)
(* stamps the deadline send + timeout, recv returns a dict sid -> rtt_ns   *)
(* of the drained replies and of the expired sessions (rtt 0), or None.    *)
(* Replies are reported whether or not PingSocket still has an entry for   *)
(* them, so duplicate, late and foreign reports reach _on_read.            *)
(*                                                                         *)
(* ping.py calls PingSocket with arguments (accelerated, request_id, seq)  *)
(* that socket.py does not declare; calls are modelled with Python's       *)
(* argument binding, which raises TypeError for an unknown keyword.        *)
(*                                                                         *)
(* Specifications: Spec is a constructed PingSocket probing the loopback   *)
(* address; SpecSock constructs a PingSocket with any settings and calls   *)
(* ping() with any address text and size; SpecPing is the Ping client      *)
(* (ping, iter_rtt); SpecConf is the construction of both objects;         *)
(* SpecSrc applies Ping._get_src_addr to every bounded src_addr value.     *)
(***************************************************************************)
EXTENDS Integers, Sequences, FiniteSets, TLC

\* ---------------------------------------------------------------- bounds
MaxProbes == 2      \* PingSocket.ping() calls made in one behaviour
MaxTime == 4        \* last value of the clock
MaxReplies == 1     \* echo replies the network delivers in one behaviour
MaxGens == 2        \* iter_rtt generators created in one behaviour
MaxCount == 2       \* largest `count` passed to iter_rtt
MaxSrc == 3         \* longest iterable passed as src_addr
Timeout == 2        \* PingSocket timeout, in clock ticks

\* ------------------------------------------------------------- constants
ForeignSid == 0     \* a session id this socket never allocated
NoTimer == -1       \* _timeout_handler is None
NoFuture == 0       \* dict.pop(sid, None) found nothing
KeyErr == -1        \* dict.pop(sid) without a default found nothing
NoCount == -1       \* iter_rtt(count=None)

IPv4 == 4
IPv6 == 6
Afis == {IPv4, IPv6}
MAX_TTL == 255
MAX_TOS == 255
RequestIdSeed == 65535  \* a value of random.randint(0, 0xFFFF)
DefaultSize == 64   \* PingSocket(size=64)
MinSize == 64       \* smallest packet SocketWrapper.send accepts
MIN_SIZE == 64      \* cli.MIN_SIZE
ExitOK == 0         \* ExitCode.OK

Probes == 1..MaxProbes
Gens == 1..MaxGens

\* exceptions SocketWrapper.send can raise that are OSError subclasses:
\* no route (ENETUNREACH) and full send buffer (EAGAIN, BlockingIOError)
OSErrors == {"ENETUNREACH", "EAGAIN"}
SendOutcomes == {"sent"} \cup OSErrors

\* result of a probe: None, or a float of rtt_ns / NS seconds (kept as the
\* numerator rtt_ns; NS is the fixed divisor 1e9)
Lost == [tag |-> "None", ns |-> 0]
Rtt(ns) == [tag |-> "float", ns |-> ns]

VARIABLES
  now,              \* monotonic clock, in ticks
  next_sid,         \* SocketWrapper: next session id to allocate
  rs,               \* SocketWrapper: sid -> [sent, deadline, live]
  rxq,              \* kernel socket: sids of echo replies not yet drained
  nreplies,         \* replies delivered so far
  sessions,         \* PingSocket.__sessions: sid -> future
  fut,              \* asyncio futures created by ping(), one per probe
  timeout_handler,  \* PingSocket._timeout_handler: NoTimer or fire time
  pc,               \* position of each ping() caller
  ret,              \* value ping() returned to its caller
  sidOf,            \* sid send() returned to each ping() call (0: none)
  sendErr,          \* what send() did for each ping() call
  nsent,            \* number of ping() calls made
  ev,               \* the last step taken and what it observed
  gen,              \* iter_rtt async generators of the Ping client
  sockets,          \* Ping.__sockets: the families that have a PingSocket
  client,           \* the Ping client: whether constructed, and its settings
  sock,             \* the PingSocket: whether constructed, and its settings
  ntimers,          \* event loop: scheduled _check_timeouts callbacks
  request_id,       \* Ping.request_id: next value of the class-wide counter
  cli               \* the gufo-ping command: position, arguments, output

vars == <<now, next_sid, rs, rxq, nreplies, sessions, fut, timeout_handler,
          pc, ret, sidOf, sendErr, nsent, ev, gen, sockets, client, sock,
          ntimers, request_id, cli>>

sockVars == <<now, next_sid, rs, rxq, nreplies, sessions, fut,
              timeout_handler, pc, ret, sidOf, sendErr,
              nsent, ntimers>>

\* everything outside the PingSocket dispatcher
restVars == <<gen, sockets, client, sock, request_id, cli>>

pingVars == <<gen, sockets, client>>

\* ev: op names the last call of ping, _on_read, _check_timeouts, iter_rtt
\* or __anext__ ("other" after any other step); for the two callbacks seen
\* is the sequence of (sid, rtt) pairs iterated, none tells that recv
\* returned None,
\* hits are the sids of seen that had an entry in the session table and
\* raised is the exception that left the callback
\* for ping: addr and size are the arguments, dst and sz what was handed to
\* SocketWrapper.send; for the Ping client rid is the request id allocated
\* (none: {}) and kw the ttl and tos keywords of the PingSocket(...) call
NoEv == [op |-> "other", p |-> 0, seen |-> <<>>, none |-> FALSE,
         hits |-> {}, raised |-> "none",
         addr |-> <<>>, size |-> {}, dst |-> <<>>, sz |-> 0,
         rid |-> {}, kw |-> [ttl |-> {}, tos |-> {}]]

SeenSids(seen) == {seen[i][1] : i \in 1..Len(seen)}

Max(a, b) == IF a >= b THEN a ELSE b

\* ------------------------------------------------------------ addresses
\* a textual address is its sequence of characters; an optional argument
\* is the empty set (None) or the singleton of its value
Loopback4 == <<"1", "2", "7", ".", "0", ".", "0", ".", "1">>
Abbrev4 == <<"1", "2", "7", ".", "0", ".", "1">>
LeadZero4 == <<"1", "2", "7", ".", "0", ".", "0", ".", "0", "1">>
Loopback6 == <<":", ":", "1">>
Long6 == <<"0", ":", ":", "1">>
InvalidAddr == <<>>
Addrs == {Loopback4, Abbrev4, LeadZero4, Loopback6, Long6}

\* `":" in address`
HasColon(addr) == \E i \in 1..Len(addr) : addr[i] = ":"

\* Ping._get_afi(address)
GetAfi(addr) == IF HasColon(addr) THEN IPv6 ELSE IPv4

Digits == <<"0", "1", "2", "3", "4", "5", "6", "7", "8", "9">>
IsDigit(c) == \E i \in 1..10 : Digits[i] = c
DigitVal(c) == (CHOOSE i \in 1..10 : Digits[i] = c) - 1

\* the dot-separated parts of a text
RECURSIVE SplitDots(_)
SplitDots(s) ==
  IF \A i \in 1..Len(s) : s[i] # "." THEN <<s>>
  ELSE LET i == CHOOSE k \in 1..Len(s) :
                  s[k] = "." /\ \A j \in 1..(k - 1) : s[j] # "."
       IN <<SubSeq(s, 1, i - 1)>> \o SplitDots(SubSeq(s, i + 1, Len(s)))

RECURSIVE Decimal(_)
Decimal(o) ==
  IF o = <<>> THEN 0
  ELSE 10 * Decimal(SubSeq(o, 1, Len(o) - 1)) + DigitVal(o[Len(o)])

\* one octet of a dotted quad: 1..3 digits, no leading zero, at most 255
OctetOk(o) ==
  /\ Len(o) \in 1..3
  /\ \A i \in 1..Len(o) : IsDigit(o[i])
  /\ Len(o) > 1 => o[1] # "0"
  /\ Decimal(o) <= 255

\* strict IPv4 text: exactly four octets
V4Ok(addr) ==
  LET parts == SplitDots(addr)
  IN Len(parts) = 4 /\ \A i \in 1..4 : OctetOk(parts[i])

\* SocketWrapper.clean_ip: the canonical text of an address, InvalidAddr
\* when the text is not an address (the caller gets ValueError)
CleanIp(addr) ==
  IF HasColon(addr)
  THEN IF addr \in {Loopback6, Long6} THEN Loopback6 ELSE InvalidAddr
  ELSE IF V4Ok(addr) THEN addr ELSE InvalidAddr

\* ------------------------------------------------------- SocketWrapper
\* SocketWrapper.send parses its address argument and checks the size:
\* it raises ValueError for a text that is not an address and for a size
\* under the minimum, before any packet is built
SendRejects(dst, sz) == CleanIp(dst) = InvalidAddr \/ sz < MinSize

\* what send can do with its arguments
SendResults(dst, sz) ==
  IF SendRejects(dst, sz) THEN {"ValueError"} ELSE SendOutcomes

\* SocketWrapper.send: allocate a session id, stamp the send time and the
\* deadline send + timeout
SendEntry == [sent |-> now, deadline |-> now + Timeout, live |-> TRUE]

\* round-trip time SocketWrapper.recv reports for a drained reply:
\* arrival - send, never negative
ReplyRtt(sid) ==
  IF sid \in DOMAIN rs THEN Max(0, now - rs[sid].sent) ELSE 1

\* sessions whose deadline has passed
Expired == {sid \in DOMAIN rs : rs[sid].live /\ rs[sid].deadline <= now}

\* SocketWrapper.recv: every drained reply as sid -> rtt_ns, every expired
\* session as sid -> 0; the dict is what _on_read iterates
RecvDict ==
  [sid \in rxq \cup Expired |-> IF sid \in rxq THEN ReplyRtt(sid) ELSE 0]

\* rs after recv: reported sessions are forgotten
RecvForget ==
  [sid \in DOMAIN rs |->
     IF sid \in rxq \cup Expired THEN [rs[sid] EXCEPT !.live = FALSE]
     ELSE rs[sid]]

\* the iteration orders of a dict with key set S
RECURSIVE Orders(_)
Orders(S) ==
  IF S = {} THEN {<<>>}
  ELSE UNION {{<<x>> \o o : o \in Orders(S \ {x})} : x \in S}

\* ------------------------------------------------------------ PingSocket
\* the PingSocket object: state is "none" before the constructor ran,
\* "open" after it returned, "failed" after it raised exc, "deleted"
\* after __del__ ran; wrapper tells
\* that SocketWrapper was created, reader that add_reader was called
NoSock == [state |-> "none", afi |-> IPv4, size |-> DefaultSize,
           ttl |-> {}, tos |-> {},
           exc |-> "none", wrapper |-> FALSE, reader |-> FALSE]

\* PingSocket(): afi IPv4, size 64, no ttl, no tos
DefaultSock == [state |-> "open", afi |-> IPv4, size |-> DefaultSize,
                ttl |-> {}, tos |-> {},
                exc |-> "none", wrapper |-> TRUE, reader |-> TRUE]

\* src_addr=None
NoSrc == [kind |-> "None", text |-> <<>>, items |-> <<>>]

\* an empty dict
EmptyDict == [k \in {} |-> <<>>]

\* the Ping object before Ping(...) ran; src_arg is the src_addr argument,
\* src the map __src_addr made from it
NoClient == [made |-> FALSE, ttl |-> {}, tos |-> {}, size |-> DefaultSize,
             src_arg |-> NoSrc, src |-> EmptyDict]

\* no except clause: every exception of send reaches the caller
OnSendError_raise(kind) == "raise"

\* `except OSError: return None` in ping(): what the caller gets for a
\* failed send
OnSendError(kind) ==
  IF kind \in OSErrors THEN "return_none" ELSE "raise"

\* _start_timeout_checker() called whatever the handle is
Arms_always(h) == TRUE

\* `if not self._timeout_handler`: no timer handle is held
Arms(h) == h = NoTimer

\* `if not self._timeout_handler: self._start_timeout_checker()`
ArmIfIdle(h) == IF Arms(h) THEN now + Timeout ELSE h

\* a pop that hands out some other pending future for an unknown sid
PopFuture_any(s, sid) ==
  IF sid \in DOMAIN s THEN s[sid]
  ELSE IF DOMAIN s # {} THEN s[CHOOSE x \in DOMAIN s : TRUE] ELSE NoFuture

\* self.__sessions.pop(sid): no default, an unknown sid is a KeyError
PopFuture_nodefault(s, sid) == IF sid \in DOMAIN s THEN s[sid] ELSE KeyErr

\* self.__sessions.pop(sid, None): the future of sid, or None
PopFuture(s, sid) == IF sid \in DOMAIN s THEN s[sid] ELSE NoFuture

\* self.__sessions.get(sid): the entry is left in the table
PopSessions_get(s, sid) == s

\* self.__sessions.pop(sid, None): the table without sid
PopSessions(s, sid) == [x \in DOMAIN s \ {sid} |-> s[x]]

\* float(rtt) / NS, with no test of rtt
ResultOf_float(rtt) == Rtt(rtt)

\* float(rtt) / NS if rtt else None
ResultOf(rtt) == IF rtt # 0 THEN Rtt(rtt) ELSE Lost

\* Future.set_result raises InvalidStateError unless the future is pending
CanSetResult(f) == f.state = "PENDING"

\* the loop of _on_read over seen.items(); stops at the first exception
RECURSIVE ProcessSeen(_, _, _)
ProcessSeen(seen, s, f) ==
  IF seen = <<>> THEN [sessions |-> s, fut |-> f, raised |-> "none"]
  ELSE LET sid == seen[1][1]
           rtt == seen[1][2]
           p == PopFuture(s, sid)
           s2 == PopSessions(s, sid)
       IN IF p = KeyErr
          THEN [sessions |-> s, fut |-> f, raised |-> "KeyError"]
          ELSE IF p = NoFuture THEN ProcessSeen(Tail(seen), s2, f)
          ELSE IF ~CanSetResult(f[p])
               THEN [sessions |-> s2, fut |-> f,
                     raised |-> "InvalidStateError"]
          ELSE ProcessSeen(Tail(seen), s2,
                 [f EXCEPT ![p] = [state |-> "FINISHED",
                                   result |-> ResultOf(rtt)]])

\* `if ":" in addr: addr = self.__sock.clean_ip(addr)` left out
NormalizeAddr_none(addr) == addr

\* `if ":" in addr: addr = self.__sock.clean_ip(addr)`
NormalizeAddr(addr) == IF HasColon(addr) THEN CleanIp(addr) ELSE addr

\* `size if size is not None else self.__size`
EffectiveSize_strict(size, default) ==
  IF size # {} THEN CHOOSE v \in size : TRUE ELSE default

\* `size or self.__size`
EffectiveSize(size, default) ==
  IF size # {} /\ size # {0} THEN CHOOSE v \in size : TRUE ELSE default

\* the future is not put into the table in the step that sends
Install_later(tbl, sid, p) == tbl

\* `self.__sessions[sid] = fut`
Install(tbl, sid, p) ==
  [s \in DOMAIN tbl \cup {sid} |-> IF s = sid THEN p ELSE tbl[s]]

\* PingSocket.ping(addr, size): clean the address, send, register the
\* future, arm the timer, await
PingCall(p, addr, size, outcome) ==
  /\ p = nsent + 1
  /\ p \in Probes
  /\ pc[p] = "idle"
  /\ sock.state = "open"
  /\ GetAfi(addr) = sock.afi
  /\ outcome \in SendResults(NormalizeAddr(addr),
                             EffectiveSize(size, sock.size))
  /\ nsent' = p
  /\ sendErr' = [sendErr EXCEPT ![p] = outcome]
  /\ IF outcome = "sent"
     THEN /\ next_sid' = next_sid + 1
          /\ rs' = [sid \in DOMAIN rs \cup {next_sid} |->
                      IF sid = next_sid THEN SendEntry ELSE rs[sid]]
          /\ sidOf' = [sidOf EXCEPT ![p] = next_sid]
          /\ fut' = [fut EXCEPT ![p] = [state |-> "PENDING",
                                        result |-> Lost]]
          /\ sessions' = Install(sessions, next_sid, p)
          /\ timeout_handler' = ArmIfIdle(timeout_handler)
          /\ ntimers' = IF Arms(timeout_handler) THEN ntimers + 1
                        ELSE ntimers
          /\ pc' = [pc EXCEPT ![p] = "await"]
          /\ UNCHANGED ret
     ELSE /\ pc' = [pc EXCEPT ![p] =
                      IF OnSendError(outcome) = "return_none"
                      THEN "returned" ELSE "raised"]
          /\ ret' = [ret EXCEPT ![p] = Lost]
          /\ UNCHANGED <<next_sid, rs, sidOf, fut, sessions,
                         timeout_handler, ntimers>>
  /\ ev' = [NoEv EXCEPT !.op = "ping", !.p = p, !.addr = addr,
                         !.size = size, !.dst = NormalizeAddr(addr),
                         !.sz = EffectiveSize(size, sock.size)]
  /\ UNCHANGED <<now, rxq, nreplies, restVars>>

\* a probe of the loopback address with the socket's default size
Ping ==
  \E p \in Probes, outcome \in SendOutcomes :
     PingCall(p, Loopback4, {}, outcome)

\* `return await fut`: the event loop wakes the caller of a finished future
Resume(p) ==
  /\ pc[p] = "await"
  /\ fut[p].state = "FINISHED"
  /\ pc' = [pc EXCEPT ![p] = "returned"]
  /\ ret' = [ret EXCEPT ![p] = fut[p].result]
  /\ ev' = NoEv
  /\ UNCHANGED <<now, next_sid, rs, rxq, nreplies, sessions, fut,
                 timeout_handler, sidOf, sendErr, nsent, ntimers, restVars>>

Wake == \E p \in Probes : Resume(p)

\* Task.cancel() on a task suspended in `await fut` cancels the future
CancelTask(p) ==
  /\ pc[p] = "await"
  /\ fut[p].state = "PENDING"
  /\ fut' = [fut EXCEPT ![p].state = "CANCELLED"]
  /\ pc' = [pc EXCEPT ![p] = "cancelled"]
  /\ ev' = NoEv
  /\ UNCHANGED <<now, next_sid, rs, rxq, nreplies, sessions,
                 timeout_handler, ret, sidOf, sendErr, nsent, ntimers,
                 restVars>>

Cancel == \E p \in Probes : CancelTask(p)

\* the tick never starts the next timer
Rearms_never(r) == FALSE

\* _check_timeouts after _on_read returned: `if self.__sessions:
\* self._start_timeout_checker()`; an exception of _on_read skips it
Rearms(r) == r.raised = "none" /\ DOMAIN r.sessions # {}

\* PingSocket._on_read for one iteration order of the dict recv returned
OnReadSeen(order) ==
  LET d == RecvDict
      seen == [i \in 1..Len(order) |-> <<order[i], d[order[i]]>>]
      r == ProcessSeen(seen, sessions, fut)
  IN /\ rs' = RecvForget
     /\ rxq' = {}
     /\ sessions' = r.sessions
     /\ fut' = r.fut
     /\ ev' = [NoEv EXCEPT !.op = "on_read", !.seen = seen,
                           !.none = (seen = <<>>),
                           !.hits = SeenSids(seen) \cap DOMAIN sessions,
                           !.raised = r.raised]
     /\ UNCHANGED <<now, next_sid, nreplies, timeout_handler, pc, ret,
                    sidOf, sendErr, nsent, ntimers, restVars>>

\* the reader callback installed by add_reader; also called directly
OnRead == \E order \in Orders(DOMAIN RecvDict) : OnReadSeen(order)

\* PingSocket._check_timeouts, the call_later callback
CheckTimeoutsSeen(order) ==
  LET d == RecvDict
      seen == [i \in 1..Len(order) |-> <<order[i], d[order[i]]>>]
      r == ProcessSeen(seen, sessions, fut)
  IN /\ timeout_handler # NoTimer
     /\ timeout_handler <= now
     /\ rs' = RecvForget
     /\ rxq' = {}
     /\ sessions' = r.sessions
     /\ fut' = r.fut
     /\ timeout_handler' = IF Rearms(r) THEN now + Timeout ELSE NoTimer
     /\ ntimers' = IF Rearms(r) THEN ntimers ELSE ntimers - 1
     /\ ev' = [NoEv EXCEPT !.op = "check_timeouts", !.seen = seen,
                           !.none = (seen = <<>>),
                           !.hits = SeenSids(seen) \cap DOMAIN sessions,
                           !.raised = r.raised]
     /\ UNCHANGED <<now, next_sid, nreplies, pc, ret, sidOf, sendErr,
                    nsent, restVars>>

CheckTimeouts ==
  \E order \in Orders(DOMAIN RecvDict) : CheckTimeoutsSeen(order)

\* ------------------------------------------------------------ environment
\* an echo reply reaches the socket: for a probe in flight, a duplicate or
\* late one for a probe already reported, or one of another process
NetReply(sid) ==
  /\ nreplies < MaxReplies
  /\ sid \in DOMAIN rs \cup {ForeignSid}
  /\ sid \notin rxq
  /\ rxq' = rxq \cup {sid}
  /\ nreplies' = nreplies + 1
  /\ ev' = NoEv
  /\ UNCHANGED <<now, next_sid, rs, sessions, fut, timeout_handler, pc,
                 ret, sidOf, sendErr, nsent, ntimers, restVars>>

Reply == \E sid \in 0..MaxProbes : NetReply(sid)

\* the clock advances once the event loop has nothing ready to run
Tick ==
  /\ now < MaxTime
  /\ rxq = {}
  /\ timeout_handler = NoTimer \/ timeout_handler > now
  /\ \A p \in Probes : ~(pc[p] = "await" /\ fut[p].state = "FINISHED")
  /\ now' = now + 1
  /\ ev' = NoEv
  /\ UNCHANGED <<next_sid, rs, rxq, nreplies, sessions, fut,
                 timeout_handler, pc, ret, sidOf, sendErr,
                 nsent, ntimers, restVars>>

\* the gufo-ping command before Cli.run: out is what was printed, exit the
\* exit code, exc the exception that left run, loop tells that the event
\* loop was created, sig that a SIGINT or SIGTERM arrived
NoCli == [pc |-> "none", size |-> {}, count |-> {}, addr |-> <<>>,
          out |-> <<>>, exit |-> {}, exc |-> "none", loop |-> FALSE,
          sig |-> FALSE]

\* no probe submitted, no generator, no Ping client
InitVars ==
  /\ now = 0
  /\ next_sid = 1
  /\ rs = [sid \in {} |-> SendEntry]
  /\ rxq = {}
  /\ nreplies = 0
  /\ sessions = [sid \in {} |-> NoFuture]
  /\ fut = [p \in Probes |-> [state |-> "NONE", result |-> Lost]]
  /\ timeout_handler = NoTimer
  /\ ntimers = 0
  /\ request_id = RequestIdSeed
  /\ cli = NoCli
  /\ pc = [p \in Probes |-> "idle"]
  /\ ret = [p \in Probes |-> Lost]
  /\ sidOf = [p \in Probes |-> 0]
  /\ sendErr = [p \in Probes |-> "none"]
  /\ nsent = 0
  /\ ev = NoEv
  /\ gen = <<>>
  /\ sockets = {}
  /\ client = NoClient

\* the state after PingSocket() returned
Init == InitVars /\ sock = DefaultSock

\* the state before any PingSocket is constructed
InitNew == InitVars /\ sock = NoSock

Next ==
  \/ Ping
  \/ Wake
  \/ Cancel
  \/ OnRead
  \/ CheckTimeouts
  \/ Reply
  \/ Tick

Spec == Init /\ [][Next]_vars

\* ------------------------------------------- PingSocket construction
AfiInputs == {1} \cup Afis
Ttls == {{}, {0}, {1}, {MAX_TTL}, {MAX_TTL + 1}}
Toss == {{}, {-1}, {0}, {MAX_TOS}, {MAX_TOS + 1}}
DefaultSizes == {MinSize - 1, DefaultSize}
Sizes == {{}, {0}, {MinSize - 1}, {MinSize}}

\* no check of afi at all
ValidAfi_any(afi) == TRUE

\* `afi not in self.VALID_AFI` is false
ValidAfi(afi) == afi \in Afis

\* `ttl is not None and (ttl < 1 or ttl > MAX_TTL)`
TtlBad(ttl) == \E v \in ttl : v < 1 \/ v > MAX_TTL

\* `tos is not None and (tos < 0 or tos > MAX_TOS)`
TosBad(tos) == \E v \in tos : v < 0 \/ v > MAX_TOS

\* PingSocket.__init__: the checks of afi, ttl and tos come first, then
\* SocketWrapper is created (the OS may refuse the socket: perm is FALSE),
\* configured, and registered with add_reader
PingSocketInit(afi, size, ttl, tos, perm) ==
  LET args == [afi |-> afi, size |-> size, ttl |-> ttl, tos |-> tos]
      fail(e) == args @@ [state |-> "failed", exc |-> e,
                          wrapper |-> FALSE, reader |-> FALSE]
  IN IF ~ValidAfi(afi) THEN fail("ValueError")
     ELSE IF TtlBad(ttl) THEN fail("ValueError")
     ELSE IF TosBad(tos) THEN fail("ValueError")
     ELSE IF ~perm THEN fail("PermissionError")
     ELSE args @@ [state |-> "open", exc |-> "none",
                   wrapper |-> TRUE, reader |-> TRUE]

\* PingSocket(afi=afi, size=size, ttl=ttl, tos=tos)
SockNewArgs(afi, size, ttl, tos, perm) ==
  /\ sock.state = "none"
  /\ sock' = PingSocketInit(afi, size, ttl, tos, perm)
  /\ ev' = [NoEv EXCEPT !.op = "PingSocket", !.raised = sock'.exc]
  /\ UNCHANGED <<sockVars, pingVars, request_id, cli>>

SockNew ==
  \E afi \in AfiInputs, size \in DefaultSizes, ttl \in Ttls, tos \in Toss,
     perm \in BOOLEAN : SockNewArgs(afi, size, ttl, tos, perm)

\* PingSocket.ping(addr, size) with any address text and size
SockPing ==
  \E p \in Probes, addr \in Addrs, size \in Sizes,
     outcome \in SendOutcomes \cup {"ValueError"} :
       PingCall(p, addr, size, outcome)

\* `self.__sock_fd = ...` inside the class body stores the attribute under
\* its mangled name
SockFdAttr == "_PingSocket__sock_fd"

\* getattr(self, "__sock_fd", None): a string is not mangled
DelLookupAttr == "__sock_fd"

\* the getattr of __del__ finds the descriptor
DelFindsFd == DelLookupAttr = SockFdAttr

\* PingSocket.__del__: remove_reader if the descriptor was found; nothing
\* is done about the timer
SockDel ==
  /\ sock.state = "open"
  /\ sock' = [sock EXCEPT !.state = "deleted",
                          !.reader = IF DelFindsFd THEN FALSE ELSE @]
  /\ ev' = [NoEv EXCEPT !.op = "del"]
  /\ UNCHANGED <<sockVars, pingVars, request_id, cli>>

NextSock ==
  \/ SockNew
  \/ SockPing
  \/ SockDel

SpecSock == InitNew /\ [][NextSock]_vars

\* ------------------------------------------------------------------ Ping
Counts == {NoCount} \cup 0..MaxCount

\* parameters PingSocket.__init__ accepts
PingSocketInitParams ==
  {"afi", "policy", "size", "src_addr", "ttl", "tos", "timeout",
   "send_buffer_size", "recv_buffer_size", "coarse"}

\* keyword arguments Ping.__get_socket passes to PingSocket(...)
GetSocketKwargs ==
  {"afi", "size", "src_addr", "ttl", "tos", "timeout", "send_buffer_size",
   "recv_buffer_size", "coarse", "accelerated"}

\* parameters PingSocket.ping accepts
PingSocketPingParams == {"addr", "size"}

\* arguments Ping.iter_rtt passes to sock.ping(...)
IterRttPingArgs == {"addr", "size", "request_id", "seq"}

\* a Python call binds when every argument names a parameter of the callee;
\* otherwise the call raises TypeError before the callee runs
Binds(args, params) == args \subseteq params

\* Ping.__init__ checking ttl and tos itself
PingInitCheck_strict(ttl, tos) ==
  IF TtlBad(ttl) \/ TosBad(tos) THEN "ValueError" ELSE "none"

\* Ping.__init__ stores its arguments and checks none of them: the
\* exception it raises
PingInitCheck(ttl, tos) == "none"

\* values of src_addr: None, a str, or an iterable of up to MaxSrc str
Other4 == <<"1", "2", "7", ".", "0", ".", "0", ".", "2">>
Other6 == <<":", ":", "2">>
SrcTexts == {<<>>, Loopback4, Other4, Loopback6, Other6}
SrcInputs ==
  {NoSrc}
  \cup {[kind |-> "str", text |-> t, items |-> <<>>] : t \in SrcTexts}
  \cup {[kind |-> "iter", text |-> <<>>, items |-> it] :
          it \in UNION {[1..n -> SrcTexts] : n \in 0..MaxSrc}}

\* `if not addr`: None, an empty str and an empty iterable are false
SrcFalsy(inp) ==
  \/ inp.kind = "None"
  \/ inp.kind = "str" /\ inp.text = <<>>
  \/ inp.kind = "iter" /\ inp.items = <<>>

\* the loop with `r[afi] = a` done for every address
RECURSIVE SrcLoop_last(_, _)
SrcLoop_last(items, r) ==
  IF items = <<>> THEN r
  ELSE LET a == Head(items)
           afi == GetAfi(a)
       IN SrcLoop_last(Tail(items),
            [k \in DOMAIN r \cup {afi} |-> IF k = afi THEN a ELSE r[k]])

\* `for a in addr: afi = Ping._get_afi(a); if afi not in r: r[afi] = a`
RECURSIVE SrcLoop(_, _)
SrcLoop(items, r) ==
  IF items = <<>> THEN r
  ELSE LET a == Head(items)
           afi == GetAfi(a)
       IN SrcLoop(Tail(items),
            IF afi \in DOMAIN r THEN r
            ELSE [k \in DOMAIN r \cup {afi} |->
                    IF k = afi THEN a ELSE r[k]])

\* Ping._get_src_addr(addr)
GetSrcAddr(inp) ==
  IF SrcFalsy(inp) THEN EmptyDict
  ELSE IF inp.kind = "str"
       THEN [k \in {GetAfi(inp.text)} |-> inp.text]
       ELSE SrcLoop(inp.items, EmptyDict)

\* Ping(size=size, ttl=ttl, tos=tos, src_addr=src_addr)
PingNewArgs(size, ttl, tos, src_addr) ==
  /\ ~client.made
  /\ LET e == PingInitCheck(ttl, tos)
     IN /\ client' = IF e = "none"
                      THEN [made |-> TRUE, ttl |-> ttl, tos |-> tos,
                            size |-> size, src_arg |-> src_addr,
                            src |-> GetSrcAddr(src_addr)]
                      ELSE client
        /\ ev' = [NoEv EXCEPT !.op = "Ping", !.raised = e]
  /\ UNCHANGED <<sockVars, gen, sockets, sock, request_id, cli>>

PingNew ==
  \E ttl \in Ttls, tos \in Toss : PingNewArgs(DefaultSize, ttl, tos, NoSrc)

\* Ping(src_addr=...) with every value of src_addr
PingNewSrc ==
  \E src_addr \in SrcInputs : PingNewArgs(DefaultSize, {}, {}, src_addr)

\* `self.__ttl`, whatever the family
FamilyOpt_any(afi, v) == v

\* `self.__ttl if afi == IPv4 else None`
FamilyOpt(afi, v) == IF afi = IPv4 THEN v ELSE {}

\* the ttl and tos keywords of the PingSocket(...) call in __get_socket
GetSocketKw(afi) ==
  [ttl |-> FamilyOpt(afi, client.ttl), tos |-> FamilyOpt(afi, client.tos)]

\* the family is entered into the map before the constructor has returned
GetSocket_cache(afi) ==
  IF afi \in sockets
  THEN [raised |-> "none", sockets |-> sockets, called |-> FALSE]
  ELSE IF ~Binds(GetSocketKwargs, PingSocketInitParams)
       THEN [raised |-> "TypeError", sockets |-> sockets \cup {afi},
             called |-> TRUE]
       ELSE LET r == PingSocketInit(afi, client.size, GetSocketKw(afi).ttl,
                                    GetSocketKw(afi).tos, TRUE)
            IN [raised |-> r.exc, sockets |-> sockets \cup {afi},
                called |-> TRUE]

\* Ping.__get_socket(address): the cached socket of the family, or a new
\* PingSocket stored in the map; "TypeError" when the constructor call
\* cannot bind, else whatever the constructor raises; called tells that
\* PingSocket(...) was called
GetSocket(afi) ==
  IF afi \in sockets
  THEN [raised |-> "none", sockets |-> sockets, called |-> FALSE]
  ELSE IF ~Binds(GetSocketKwargs, PingSocketInitParams)
       THEN [raised |-> "TypeError", sockets |-> sockets, called |-> TRUE]
       ELSE LET r == PingSocketInit(afi, client.size, GetSocketKw(afi).ttl,
                                    GetSocketKw(afi).tos, TRUE)
            IN IF r.exc # "none"
               THEN [raised |-> r.exc, sockets |-> sockets, called |-> TRUE]
               ELSE [raised |-> "none", sockets |-> sockets \cup {afi},
                     called |-> TRUE]

\* next(self.request_id) & 0xFFFF
GetRequestId(counter) == counter % 65536

\* Ping.ping(addr): get the socket of the family, allocate the request id,
\* then sock.ping(addr, size=size, request_id=request_id, seq=seq)
PingPingCall(addr) ==
  /\ client.made
  /\ LET r == GetSocket(GetAfi(addr))
         got == r.raised = "none"
     IN /\ sockets' = r.sockets
        /\ request_id' = IF got THEN request_id + 1 ELSE request_id
        /\ ev' = [NoEv EXCEPT
                    !.op = "Ping.ping", !.addr = addr,
                    !.kw = IF r.called THEN GetSocketKw(GetAfi(addr)) ELSE @,
                    !.rid = IF got THEN {GetRequestId(request_id)} ELSE {},
                    !.raised =
                       IF ~got THEN r.raised
                       ELSE IF ~Binds(IterRttPingArgs, PingSocketPingParams)
                            THEN "TypeError" ELSE "none"]
  /\ UNCHANGED <<sockVars, gen, client, sock, cli>>

PingPing == \E addr \in {Loopback4, Loopback6} : PingPingCall(addr)

\* values of the interval argument of iter_rtt: None, 0, one tick
Intervals == {{}, {0}, {1}}

\* calling ping.iter_rtt(addr, interval=interval, count=count) creates the
\* async generator; no code of its body runs yet.  probes are the
\* (request id, sequence, send time) of the probes the series submitted,
\* rid its request id
IterRttCreate(afi, count, interval) ==
  /\ client.made
  /\ Len(gen) < MaxGens
  /\ gen' = Append(gen, [afi |-> afi, count |-> count,
                         interval |-> interval, state |-> "created",
                         out |-> <<>>, probes |-> <<>>, rid |-> {},
                         exc |-> "none"])
  /\ ev' = [NoEv EXCEPT !.op = "iter_rtt"]
  /\ UNCHANGED <<sockVars, sockets, client, sock, request_id, cli>>

IterRtt ==
  \E afi \in Afis, count \in Counts, interval \in Intervals :
     IterRttCreate(afi, count, interval)

\* the first __anext__ of the generator: the body runs from its start, gets
\* the socket, allocates the request id, and reaches
\* `yield await sock.ping(...)`; an exception ends the generator and is
\* raised to the consumer
IterRttAnext(g) ==
  /\ g \in 1..Len(gen)
  /\ gen[g].state = "created"
  /\ LET r == GetSocket(gen[g].afi)
         got == r.raised = "none"
     IN /\ sockets' = r.sockets
        /\ request_id' = IF got THEN request_id + 1 ELSE request_id
        /\ gen' = [gen EXCEPT ![g] =
             IF ~got
             THEN [@ EXCEPT !.state = "finished", !.exc = r.raised]
             ELSE IF ~Binds(IterRttPingArgs, PingSocketPingParams)
                  THEN [@ EXCEPT !.state = "finished", !.exc = "TypeError",
                                 !.rid = {GetRequestId(request_id)}]
                  ELSE [@ EXCEPT !.state = "probing",
                                 !.rid = {GetRequestId(request_id)}]]
        /\ ev' = [NoEv EXCEPT
                    !.op = "anext", !.p = g,
                    !.kw = IF r.called THEN GetSocketKw(gen[g].afi) ELSE @,
                    !.rid = IF got THEN {GetRequestId(request_id)} ELSE {},
                    !.raised = gen'[g].exc]
  /\ UNCHANGED <<sockVars, client, sock, cli>>

Anext == \E g \in Gens : IterRttAnext(g)

\* Ping(), every setting at its default
PingDefault == PingNewArgs(DefaultSize, {}, {}, NoSrc)

NextPing ==
  \/ PingDefault
  \/ PingPing
  \/ IterRtt
  \/ Anext

SpecPing == Init /\ [][NextPing]_vars

\* the reader callback run because the socket is readable
ReadReady ==
  /\ rxq # {}
  /\ OnRead

\* the dispatcher with no awaiter cancelled and with the event loop doing
\* its work: a due timer is run, a readable socket is read, a finished
\* future wakes its awaiter, and time passes. The clock of the model stops
\* at MaxTime, so probes are submitted only while the latest sweep that can
\* report them, 2 * Timeout - 1 after the submission, is within it.
PingInTime ==
  /\ now + 2 * Timeout - 1 <= MaxTime
  /\ Ping

NextLive ==
  \/ PingInTime
  \/ Wake
  \/ OnRead
  \/ CheckTimeouts
  \/ Reply
  \/ Tick

SpecLive ==
  /\ Init
  /\ [][NextLive]_vars
  /\ WF_vars(Tick)
  /\ WF_vars(CheckTimeouts)
  /\ WF_vars(ReadReady)
  /\ WF_vars(Wake)

\* construction of the two objects, with every combination of settings,
\* and the client constructing its sockets
NextConf ==
  \/ PingNew
  \/ SockNew
  \/ PingPing

SpecConf == InitNew /\ [][NextConf]_vars

NextSrc == PingNewSrc

SpecSrc == InitNew /\ [][NextSrc]_vars

\* ------------------------------------------------------------------- Cli
\* command lines: an address, -s SIZE or no -s, -c COUNT or no -c
CliSizes == {{}, {0}, {10}, {MIN_SIZE - 1}, {MIN_SIZE}, {MIN_SIZE + 1}}
CliCounts == {{}} \cup {{n} : n \in 0..MaxCount}

\* `ns.size is not None and ns.size <= MIN_SIZE`
CliSizeBad_le(size) == \E v \in size : v <= MIN_SIZE

\* `ns.size is not None and ns.size < MIN_SIZE`
CliSizeBad(size) == \E v \in size : v < MIN_SIZE

\* f"size must be more than {MIN_SIZE}"
DieMsg == <<"size must be more than ", MIN_SIZE>>

\* Cli.run(args) up to run_until_complete: parse, check the size (die
\* prints and raises SystemExit(1)), else create the loop and the task of
\* _run and install main_task.cancel as the handler of SIGINT and SIGTERM
CliRunArgs(addr, size, count) ==
  /\ cli.pc = "none"
  /\ cli' = IF CliSizeBad(size)
            THEN [cli EXCEPT !.pc = "exited", !.addr = addr, !.size = size,
                             !.count = count, !.out = <<DieMsg>>,
                             !.exit = {1}]
            ELSE [cli EXCEPT !.pc = "task_ready", !.addr = addr,
                             !.size = size, !.count = count, !.loop = TRUE]
  /\ ev' = [NoEv EXCEPT !.op = "Cli.run"]
  /\ UNCHANGED <<sockVars, pingVars, sock, request_id>>

CliRun ==
  \E addr \in {Loopback4, Loopback6}, size \in CliSizes,
     count \in CliCounts : CliRunArgs(addr, size, count)

\* a SIGINT or SIGTERM arrives before the loop has run the task: the loop
\* runs the first step of the task before it runs the signal handler
CliSignal ==
  /\ cli.pc = "task_ready"
  /\ ~cli.sig
  /\ cli' = [cli EXCEPT !.sig = TRUE]
  /\ ev' = [NoEv EXCEPT !.op = "signal"]
  /\ UNCHANGED <<sockVars, pingVars, sock, request_id>>

\* the first step of the task of Cli._run: Ping(size=size), the PING line,
\* iter_rtt(addr=address), then `await anext(iter_ping)` inside
\* `except (CancelledError, StopAsyncIteration)`; any other exception of
\* the generator leaves _run, the task and run_until_complete
CliTask ==
  /\ cli.pc = "task_ready"
  /\ ~client.made
  /\ Len(gen) < MaxGens
  /\ LET size == EffectiveSize(cli.size, MIN_SIZE)
         afi == GetAfi(cli.addr)
         r == GetSocket(afi)
         got == r.raised = "none"
         exc == IF ~got THEN r.raised
                ELSE IF ~Binds(IterRttPingArgs, PingSocketPingParams)
                     THEN "TypeError" ELSE "none"
     IN /\ client' = [made |-> TRUE, ttl |-> {}, tos |-> {}, size |-> size,
                      src_arg |-> NoSrc, src |-> GetSrcAddr(NoSrc)]
        /\ sockets' = r.sockets
        /\ request_id' = IF got THEN request_id + 1 ELSE request_id
        /\ gen' = Append(gen,
                    [afi |-> afi, count |-> NoCount, interval |-> {1},
                     state |-> IF exc = "none" THEN "probing" ELSE "finished",
                     out |-> <<>>, probes |-> <<>>,
                     rid |-> IF got THEN {GetRequestId(request_id)} ELSE {},
                     exc |-> exc])
        /\ cli' = [cli EXCEPT
                     !.pc = IF exc = "none" THEN "awaiting" ELSE "raised",
                     !.out = <<<<"PING ", cli.addr, size>>>>,
                     !.exc = exc]
        /\ ev' = [NoEv EXCEPT !.op = "Cli._run", !.raised = exc]
  /\ UNCHANGED <<sockVars, sock>>

NextCli ==
  \/ CliRun
  \/ CliSignal
  \/ CliTask

SpecCli == InitNew /\ [][NextCli]_vars

\* ------------------------------------------------------------ properties
Callbacks == {"on_read", "check_timeouts"}

\* C1: a session entry is removed once and its future gets a result at most
\* once: a finished future never changes, a future is finished only with
\* its entry gone from the table, and a removed entry never comes back,
\* whatever reports (duplicate, late, expiry after reply) the callbacks see.
C1_ResolvedOnce ==
  [][/\ \A p \in Probes :
          fut[p].state = "FINISHED" => fut'[p] = fut[p]
     /\ \A p \in Probes :
          fut'[p].state = "FINISHED" => sidOf'[p] \notin DOMAIN sessions'
     /\ \A p \in Probes :
          (sidOf[p] # 0 /\ sidOf[p] \notin DOMAIN sessions)
             => sidOf[p] \notin DOMAIN sessions']_vars

\* a second report for a probe whose caller already has its result
C1_Witness ==
  \E p \in Probes :
     /\ pc[p] = "returned"
     /\ sidOf[p] # 0
     /\ ev.op \in Callbacks
     /\ sidOf[p] \in SeenSids(ev.seen)

\* C2: a probe that gets no reply is completed with Lost no later than
\* timeout after its own submission, also when it was submitted while the
\* timer armed by an earlier probe was running (stated for runs in which
\* no awaiter is cancelled).
C2_LostWithinTimeout ==
  (\A q \in Probes : pc[q] # "cancelled")
     => \A p \in Probes :
           (/\ pc[p] = "await"
            /\ fut[p].state = "PENDING"
            /\ sidOf[p] \notin rxq)
           => now <= rs[sidOf[p]].sent + Timeout

\* C3: a reply reported after its probe was completed as Lost is dropped:
\* the outcome stays Lost, the entry is not back in the table and every
\* future the callback completes has its own sid in the report.
C3_LateReplyDropped ==
  [][\A p \in Probes :
        (/\ fut[p].state = "FINISHED"
         /\ fut[p].result = Lost
         /\ ev'.op \in Callbacks
         /\ sidOf[p] \in SeenSids(ev'.seen))
        => /\ fut'[p] = fut[p]
           /\ sidOf[p] \notin DOMAIN sessions'
           /\ \A q \in Probes :
                 fut'[q] # fut[q]
                    => sidOf[q] \in SeenSids(ev'.seen) \ {sidOf[p]}]_vars

\* a reply with a measured rtt was processed for a probe that had already
\* returned None, while another probe was pending
C3_Witness ==
  \E p \in Probes :
     /\ pc[p] = "returned"
     /\ ret[p] = Lost
     /\ ev.op \in Callbacks
     /\ \E i \in 1..Len(ev.seen) :
           ev.seen[i][1] = sidOf[p] /\ ev.seen[i][2] # 0
     /\ DOMAIN sessions # {}

\* C4: _on_read changes neither the session table, nor a future, nor the
\* timer, and raises nothing, when recv returned None or only session ids
\* without an entry in the table.
C4_UnmatchedReadIsNoop ==
  [][(ev'.op = "on_read" /\ ev'.hits = {})
        => /\ sessions' = sessions
           /\ fut' = fut
           /\ timeout_handler' = timeout_handler
           /\ ev'.raised = "none"]_vars

\* _on_read iterated a non-empty report without any match, probes pending
C4_Witness ==
  /\ ev.op = "on_read"
  /\ ev.seen # <<>>
  /\ ev.hits = {}
  /\ DOMAIN sessions # {}
  /\ timeout_handler # NoTimer

\* C5: when send reports an unreachable host, ping() returns None without
\* suspending: no future is created, no entry is inserted and the timer is
\* left as it was.
C5_UnreachableIsLost ==
  [][\A p \in Probes :
        (pc[p] = "idle" /\ sendErr'[p] = "ENETUNREACH")
        => /\ pc'[p] = "returned"
           /\ ret'[p] = Lost
           /\ fut'[p].state = "NONE"
           /\ sessions' = sessions
           /\ timeout_handler' = timeout_handler]_vars

\* ping() returned None for an unreachable host while no timer was armed
C5_Witness ==
  \E p \in Probes :
     /\ sendErr[p] = "ENETUNREACH"
     /\ pc[p] = "returned"
     /\ ret[p] = Lost
     /\ ev.op = "ping"
     /\ ev.p = p
     /\ timeout_handler = NoTimer

\* C6: when send fails with an OS error other than unreachable-route (here
\* would-block on a full send buffer), ping() raises it to the caller and
\* inserts no entry.
C6_OtherSendErrorRaises ==
  \A p \in Probes :
     sendErr[p] = "EAGAIN"
        => pc[p] = "raised" /\ sidOf[p] = 0

\* C7: the entry of a cancelled awaiter stays in the table and its later
\* removal by _on_read (reply or expiry) raises no error in the reader
\* callback or the timer tick.
C7_CancelledResolvedQuietly ==
  [][\A p \in Probes :
        (pc[p] = "cancelled" /\ sidOf[p] \in DOMAIN sessions)
        => /\ pc'[p] = "cancelled"
           /\ (sidOf[p] \notin DOMAIN sessions'
                 => ev'.op \in Callbacks /\ ev'.raised = "none")]_vars

\* C8: the session table never holds more entries than probes submitted and
\* is empty again within timeout after the last submission (stated for runs
\* in which no awaiter is cancelled).
LastSent ==
  IF DOMAIN rs = {} THEN 0
  ELSE rs[CHOOSE s \in DOMAIN rs : \A t \in DOMAIN rs : t <= s].sent

C8_TableBoundedAndDrained ==
  /\ Cardinality(DOMAIN sessions) <= nsent
  /\ (DOMAIN sessions # {} /\ \A q \in Probes : pc[q] # "cancelled")
        => now <= LastSent + Timeout
\* C9: for every count N >= 1 and either family, iter_rtt(addr, count=N)
\* yields exactly N outcomes and then stops without an error.
C9_IterYieldsCount ==
  \A g \in 1..Len(gen) :
     (gen[g].state = "finished" /\ gen[g].count >= 1)
        => Len(gen[g].out) = gen[g].count /\ gen[g].exc = "none"

\* C10: iter_rtt stops by itself exactly when count is set: with an integer
\* count >= 0 it stops after count outcomes, with count = None it does not
\* stop.
C10_IterStopsIffCount ==
  \A g \in 1..Len(gen) :
     gen[g].state = "finished"
        => gen[g].count # NoCount /\ Len(gen[g].out) = gen[g].count

\* family probed by the last step of the Ping client
ProbedAfi(e) == IF e.op = "anext" THEN gen[e.p].afi ELSE GetAfi(e.addr)

\* C11: the client keeps one PingSocket per family: a probe (ping, or the
\* first step of an iter_rtt series) of a family leaves the socket map
\* with that family's socket in it, created if it was absent and kept if
\* it was there, and with the other family's entry as it was.
C11_OneSocketPerFamily ==
  [][ev'.op \in {"Ping.ping", "anext"}
       => sockets' = sockets \cup {ProbedAfi(ev')}]_vars

\* C12: a reply matched to a pending entry removes the entry and finishes
\* the future with the round-trip time max(0, arrival - send); the caller
\* never gets Lost for it, a measured time of 0 included.
C12_MatchedReplyIsRtt ==
  [][\A p \in Probes :
       (/\ ev'.op \in Callbacks
        /\ ev'.raised = "none"
        /\ sidOf[p] \in DOMAIN sessions
        /\ sidOf[p] \in rxq
        /\ fut[p].state = "PENDING")
       => /\ sidOf[p] \notin DOMAIN sessions'
          /\ fut'[p].state = "FINISHED"
          /\ fut'[p].result = Rtt(Max(0, now - rs[sidOf[p]].sent))]_vars

\* a result is None or a float greater than 0.0
ResultOk(r) == r = Lost \/ (r.tag = "float" /\ r.ns > 0)

\* C13: every result ping() delivers, and every result set on a future, is
\* None or a float strictly greater than 0.0; never 0.0, never negative.
C13_ResultNoneOrPositive ==
  /\ \A p \in Probes : pc[p] = "returned" => ResultOk(ret[p])
  /\ \A p \in Probes : fut[p].state = "FINISHED" => ResultOk(fut[p].result)

\* one caller has a measured round-trip time, one was told of a loss by
\* an expiry report
C13_Witness ==
  /\ \E p \in Probes : pc[p] = "returned" /\ ret[p].tag = "float"
  /\ \E p \in Probes :
       pc[p] = "returned" /\ sendErr[p] = "sent" /\ ret[p] = Lost

\* C14: for IPv4 and IPv6 alike, Ping.ping on a client configured with ttl
\* outside 1..255 or tos outside 0..255 raises ValueError, and on a client
\* with valid ttl and tos it raises nothing.
C14_BadTtlTosRaisesOnPing ==
  ev.op = "Ping.ping"
    => ev.raised = IF TtlBad(client.ttl) \/ TosBad(client.tos)
                   THEN "ValueError" ELSE "none"

\* C15 as stated: an invalid ttl or tos is reported by Ping(...) itself, so
\* no client exists that holds an invalid ttl or tos.
C15_ReportedAtConstruction ==
  client.made => ~TtlBad(client.ttl) /\ ~TosBad(client.tos)

\* C15 amended: Ping(...) raises nothing whatever ttl and tos are; an
\* invalid ttl or tos is reported by the constructor of PingSocket, as
\* ValueError, before SocketWrapper is created and before a reader is
\* registered.
C15_ReportedBySocketConstructor ==
  /\ ev.op = "Ping" => ev.raised = "none" /\ client.made
  /\ (sock.state # "none" /\ ValidAfi(sock.afi)
        /\ (TtlBad(sock.ttl) \/ TosBad(sock.tos)))
       => /\ sock.state = "failed"
          /\ sock.exc = "ValueError"
          /\ ~sock.wrapper
          /\ ~sock.reader

\* a client was made with an invalid ttl, and a PingSocket of a valid
\* family refused an invalid tos
C15_Witness ==
  /\ client.made
  /\ TtlBad(client.ttl)
  /\ sock.state = "failed"
  /\ ValidAfi(sock.afi)
  /\ ~TtlBad(sock.ttl)
  /\ TosBad(sock.tos)

\* the size the last ping() names: its size argument, or the socket's
\* default when the argument is None
NamedSize(e) == IF e.size # {} THEN CHOOSE v \in e.size : TRUE ELSE sock.size

\* C16 as stated: every size under 64, given as the socket's default or as
\* the size argument of ping() (0 included), is rejected with ValueError
\* and no packet is sent for it.
C16_SmallSizeRejected ==
  (ev.op = "ping" /\ NamedSize(ev) < MinSize)
    => sendErr[ev.p] = "ValueError" /\ pc[ev.p] = "raised"

\* C16 amended: the size handed to send is the size argument unless that
\* is None or 0, and then the socket's default, which the constructor
\* took unchecked; a handed size under 64 is rejected with ValueError at
\* that ping(), with no entry inserted and no outcome; a size argument of
\* 0 on a socket whose default is at least 64 is not rejected.
C16_SmallSizeRejectedAtSend ==
  ev.op = "ping"
    => /\ ev.sz = IF ev.size \in {{}, {0}} THEN sock.size ELSE NamedSize(ev)
       /\ ev.sz < MinSize
            => /\ sendErr[ev.p] = "ValueError"
               /\ pc[ev.p] = "raised"
               /\ sidOf[ev.p] = 0
       /\ (ev.size = {0} /\ sock.size >= MinSize
             /\ ev.dst \in {Loopback4, Loopback6})
            => sendErr[ev.p] # "ValueError"

\* a ping() with size 0 was sent with the default size after an earlier
\* ping() naming 63 bytes was rejected
C16_Witness ==
  /\ ev.op = "ping"
  /\ ev.size = {0}
  /\ ev.sz = DefaultSize
  /\ sendErr[ev.p] = "sent"
  /\ ev.p > 1
  /\ sendErr[1] = "ValueError"
  /\ sidOf[1] = 0

\* C17: ping() on an IPv4 text with abbreviated or leading-zero octets
\* raises ValueError instead of returning None, and leaves the session
\* table and the timer as they were; an IPv6 text is handed to send in its
\* canonical compact form (0::1 as ::1).
C17_AddressChecked ==
  [][ev'.op = "ping"
       => /\ ev'.addr \in {Abbrev4, LeadZero4}
               => /\ sendErr'[ev'.p] = "ValueError"
                  /\ pc'[ev'.p] = "raised"
                  /\ sessions' = sessions
                  /\ timeout_handler' = timeout_handler
          /\ ev'.addr \in {Loopback6, Long6} => ev'.dst = Loopback6]_vars

\* with a probe pending and the timer armed, a ping() of 127.0.0.01 raised
\* ValueError and got no session
C17_Witness ==
  /\ ev.op = "ping"
  /\ ev.addr = LeadZero4
  /\ pc[ev.p] = "raised"
  /\ sidOf[ev.p] = 0
  /\ DOMAIN sessions # {}
  /\ timeout_handler # NoTimer

\* C18: PingSocket(afi) with afi other than 4 or 6 raises ValueError with
\* no SocketWrapper created, no reader registered and no timer armed;
\* with afi 4 or 6 (and valid ttl and tos) the constructor raises no
\* ValueError, and unless the OS refuses the socket the object is
\* constructed, its wrapper created and its reader registered.
C18_AfiChecked ==
  sock.state \in {"open", "failed"}
    => /\ sock.afi \notin {4, 6}
            => /\ sock.state = "failed"
               /\ sock.exc = "ValueError"
               /\ ~sock.wrapper
               /\ ~sock.reader
               /\ timeout_handler = NoTimer
       /\ (sock.afi \in {4, 6} /\ ~TtlBad(sock.ttl) /\ ~TosBad(sock.tos))
            => /\ sock.exc \in {"none", "PermissionError"}
               /\ sock.exc = "none"
                    => sock.state = "open" /\ sock.wrapper /\ sock.reader

\* PingSocket(afi=1) raised ValueError
C18_Witness ==
  /\ sock.state = "failed"
  /\ sock.afi = 1
  /\ sock.exc = "ValueError"
  /\ ev.op = "PingSocket"

\* what the claim says _get_src_addr gives for an iterable: for each
\* family the first address of that family, 6 being the addresses with ':'
FirstOfFamily(items, out) ==
  \A f \in {4, 6} :
     LET idx == {i \in 1..Len(items) : HasColon(items[i]) <=> f = 6}
     IN IF idx = {} THEN f \notin DOMAIN out
        ELSE /\ f \in DOMAIN out
             /\ out[f] = items[CHOOSE i \in idx : \A j \in idx : i <= j]

\* C19 as stated: the map has at most one address per family; None and an
\* empty iterable give {}, every single string gives {family: string}, an
\* iterable gives the first address of each family.
C19_SrcAddrMap ==
  client.made
    => LET inp == client.src_arg
           out == client.src
       IN /\ DOMAIN out \subseteq {4, 6}
          /\ inp.kind = "None" => out = EmptyDict
          /\ inp.kind = "str"
               => /\ DOMAIN out = {IF HasColon(inp.text) THEN 6 ELSE 4}
                  /\ \A f \in DOMAIN out : out[f] = inp.text
          /\ inp.kind = "iter" => FirstOfFamily(inp.items, out)

\* C19 amended: as above, but it is a non-empty single string that gives
\* {family: string}; the empty string gives {} like None.
C19_SrcAddrMapNonEmpty ==
  client.made
    => LET inp == client.src_arg
           out == client.src
       IN /\ DOMAIN out \subseteq {4, 6}
          /\ inp.kind = "None" => out = EmptyDict
          /\ (inp.kind = "str" /\ inp.text = <<>>) => out = EmptyDict
          /\ (inp.kind = "str" /\ inp.text # <<>>)
               => /\ DOMAIN out = {IF HasColon(inp.text) THEN 6 ELSE 4}
                  /\ \A f \in DOMAIN out : out[f] = inp.text
          /\ inp.kind = "iter" => FirstOfFamily(inp.items, out)

\* src_addr = ("127.0.0.2", "127.0.0.1", "::1") gave {4: "127.0.0.2", 6: "::1"}
C19_Witness ==
  /\ client.made
  /\ client.src_arg.kind = "iter"
  /\ client.src_arg.items = <<Other4, Loopback4, Loopback6>>
  /\ DOMAIN client.src = {4, 6}
  /\ client.src[4] = Other4
  /\ client.src[6] = Loopback6

C21_RequestIdAllocated ==
  /\ ev.op \in {"Ping.ping", "anext"}
       => ev.rid # {} /\ ev.rid \subseteq 0..65535
  /\ \A g, h \in 1..Len(gen) :
       (g # h /\ gen[g].state = "probing" /\ gen[h].state = "probing")
          => gen[g].rid \cap gen[h].rid = {}

\* C22: once a PingSocket is destroyed its reader is no longer registered
\* with the event loop and no expiration timer of it is scheduled.
C22_TeardownUnregisters ==
  sock.state = "deleted"
    => ~sock.reader /\ timeout_handler = NoTimer /\ ntimers = 0

C24_CliSmallSizeDies ==
  cli.pc # "none"
    => /\ (\E v \in cli.size : v < 64)
            => /\ cli.pc = "exited"
               /\ cli.out = <<<<"size must be more than ", 64>>>>
               /\ cli.exit = {1}
               /\ ~cli.loop
               /\ ~client.made
               /\ nsent = 0
       /\ cli.size = {64} => cli.pc # "exited" /\ cli.loop

\* gufo-ping -s 63 ::1 died
C24_Witness ==
  /\ cli.pc = "exited"
  /\ cli.size = {63}
  /\ cli.exit = {1}
  /\ ev.op = "Cli.run"

\* C25: whenever the series of the command is over, by a signal at any
\* point or by -c COUNT, the statistics were printed and run returned
\* ExitCode.OK; no exception leaves run.
C25_CliEndsWithSummary ==
  (cli.loop /\ cli.pc \notin {"task_ready", "awaiting"})
    => /\ cli.pc = "done"
       /\ cli.exc = "none"
       /\ cli.exit = {ExitOK}
       /\ \E i \in 1..Len(cli.out) : cli.out[i][1] = "statistics"

\* C26: at most one expiration timer is scheduled for the socket at any
\* time, and it is the one the handle refers to: ping arms only when no
\* handle is held, _check_timeouts clears the handle of the timer that
\* fired before it may arm the next.
C26_SingleTimer ==
  /\ ntimers \in {0, 1}
  /\ ntimers = 1 <=> timeout_handler # NoTimer

\* a second probe was sent while the timer of the first was scheduled
C26_Witness ==
  /\ ev.op = "ping"
  /\ Cardinality(DOMAIN sessions) = 2
  /\ timeout_handler # NoTimer
  /\ timeout_handler < now + Timeout
  /\ ntimers = 1

\* C27: after an expiration tick the timer is armed for no later than the
\* nearest deadline of the entries that remain, and is unarmed when none
\* remain (stated for runs in which no awaiter is cancelled).
NearestDeadline(tbl) ==
  CHOOSE d \in {rs[sid].deadline : sid \in DOMAIN tbl} :
     \A sid \in DOMAIN tbl : d <= rs[sid].deadline

C27_RearmedForNearestDeadline ==
  [][(ev'.op = "check_timeouts" /\ \A q \in Probes : pc[q] # "cancelled")
       => IF DOMAIN sessions' = {}
          THEN timeout_handler' = NoTimer
          ELSE /\ timeout_handler' # NoTimer
               /\ timeout_handler' <= NearestDeadline(sessions')]_vars

\* C28: a series that has been started sends its probes one after another
\* without an error; with an interval set, a probe is sent no sooner than
\* interval after the start of the one before it, and with interval None
\* or 0 it is sent at the moment the one before it resolved.
Paced(g, k) ==
  IF \E i \in gen[g].interval : i # 0
  THEN \A i \in gen[g].interval :
          gen[g].probes[k].start >= gen[g].probes[k - 1].start + i
  ELSE gen[g].probes[k].start = gen[g].probes[k - 1].resolved

C29_PendingImpliesTimer ==
  DOMAIN sessions # {} => timeout_handler # NoTimer /\ ntimers >= 1

\* C30: when the batch of recv holds the sid of a cancelled awaiter next
\* to sids of other pending probes, the callback resolves the future of
\* every other sid of the batch, and a timer tick still re-arms the timer
\* while entries remain.
CancelledInBatch ==
  \E q \in Probes :
     /\ pc[q] = "cancelled"
     /\ sidOf[q] \in DOMAIN sessions
     /\ sidOf[q] \in SeenSids(ev'.seen)

C30_CancelDoesNotBlockOthers ==
  [][(ev'.op \in Callbacks /\ CancelledInBatch)
       => /\ \A p \in Probes :
               (/\ pc[p] = "await"
                /\ sidOf[p] \in DOMAIN sessions
                /\ sidOf[p] \in SeenSids(ev'.seen))
               => /\ fut'[p].state = "FINISHED"
                  /\ sidOf[p] \notin DOMAIN sessions'
          /\ (ev'.op = "check_timeouts" /\ DOMAIN sessions' # {})
               => timeout_handler' # NoTimer]_vars

\* C31: send and the insertion of the future are one step of the event
\* loop: a session the transport has not reported yet always has its
\* entry in the table, so a sid that a callback finds unmatched is not one
\* of a probe whose report is still to come.
C31_SentIsRecorded ==
  [][/\ \A sid \in DOMAIN rs' : rs'[sid].live => sid \in DOMAIN sessions'
     /\ ev'.op \in Callbacks
          => \A sid \in SeenSids(ev'.seen) \ DOMAIN sessions :
                sid \notin DOMAIN rs \/ ~rs[sid].live]_vars

\* the reader callback matched the reply of a probe sent at this very
\* moment
C31_Witness ==
  /\ ev.op = "on_read"
  /\ \E p \in Probes :
        /\ sidOf[p] \in ev.hits
        /\ rs[sidOf[p]].sent = now
        /\ fut[p].state = "FINISHED"
        /\ sidOf[p] \notin DOMAIN sessions

\* C32: with no awaiter cancelled, every call of PingSocket.ping that
\* awaits its future eventually returns, for any number of concurrent
\* probes and any interleaving of reader callbacks and timer ticks.
C32_EveryPingReturns ==
  \A p \in Probes : (pc[p] = "await") ~> (pc[p] = "returned")

\* two probes submitted at different times have both returned, the later
\* one as lost and by a tick later than its own deadline
C32_Witness ==
  \E p, q \in Probes :
     /\ pc[p] = "returned" /\ pc[q] = "returned"
     /\ sidOf[p] # 0 /\ sidOf[q] # 0
     /\ rs[sidOf[p]].sent < rs[sidOf[q]].sent
     /\ ret[q] = Lost
     /\ now > rs[sidOf[q]].deadline
     /\ timeout_handler = NoTimer

\* C33: a probe that fails because the PingSocket of its family could not
\* be constructed leaves the client's socket map as it was: nothing is
\* cached for the family, so the next probe of the family constructs
\* again, and the entry of the other family is untouched.
C33_FailedSocketNotCached ==
  [][(/\ ev'.op \in {"Ping.ping", "anext"}
      /\ ev'.raised # "none"
      /\ ProbedAfi(ev') \notin sockets)
       => /\ sockets' = sockets
          /\ ProbedAfi(ev') \notin sockets']_vars

\* a probe on a client with an invalid ttl has failed and no socket is in
\* the map
C33_Witness ==
  /\ ev.op = "Ping.ping"
  /\ ev.raised # "none"
  /\ client.made
  /\ TtlBad(client.ttl)
  /\ GetAfi(ev.addr) \notin sockets

====
